---- MODULE Spec2Model ----
(***************************************************************************)
(* A model of the three nook ingestion lambdas (hacker_news,               *)
(* github_trending, tech_feed): the invocation gate of lambda_handler, the *)
(* job it constructs and runs, and the blob-store writes of the run.       *)
(*                                                                         *)
(* Python values are modelled as follows.  A dict is a record whose DOMAIN *)
(* is the set of keys present, so `k in d` is k \in DOMAIN d.  None in a   *)
(* string position is the string "None".  A text (str holding HTML) is a   *)
(* record [kind, plain, markup]: plain counts the characters that survive  *)
(* tag stripping and markup the characters that belong to tags, so the     *)
(* length of the raw string is plain + markup.                             *)
(***************************************************************************)
EXTENDS Integers, Sequences, FiniteSets, TLC

VARIABLES
    job,               \* which lambda this invocation belongs to
    event,             \* the invocation payload (a dict)
    pc,                \* position of the handler / job
    is_trigger_event,  \* lambda_handler's local flag
    response,          \* the dict lambda_handler returned (statusCode 0: none yet)
    exc,               \* class of the exception caught at the handler boundary
    constructed,       \* number of job objects constructed
    ran,               \* number of times the job's __call__ was entered
    bucket,            \* put_object calls of the run, in order
    markdowns,         \* rendered fragments collected by the run
    top_stories,       \* hacker_news: the truncated top-story id list
    fetched,           \* hacker_news: the story dicts fetched so far
    stories,           \* hacker_news: the list _get_top_stories builds
    summarized,        \* the contents passed to the summarizer, in order
    summarizer_errors, \* number of summarizer calls that raised
    threshold,         \* tech_feed: self._threshold
    feed_idx,          \* tech_feed: position in self._tech_feed_urls
    feed,              \* tech_feed: feed_parser["entries"] of the current feed
    filtered,          \* tech_feed: what _filter_entries returned for it
    entries,           \* tech_feed: the entries left after the cap
    entry_idx,         \* tech_feed: position in entries
    kept,              \* tech_feed: every entry that passed filter and cap
    lang_idx,          \* github_trending: position in self._languages
    pages,             \* github_trending: what requests.get gave, per language
    run_pc,            \* several runs of one job: where each run is
    run_markdowns,     \* several runs: the fragments each run collected
    run_put,           \* several runs: the put_object call each run made
    objects,           \* the bucket's objects, by key
    last_writer        \* by key, the run whose put was stored last

vars == <<job, event, pc, is_trigger_event, response, exc, constructed, ran,
          bucket, markdowns, top_stories, fetched, stories, summarized,
          summarizer_errors, threshold, feed_idx, feed, filtered, entries,
          entry_idx, kept, lang_idx, pages,
          run_pc, run_markdowns, run_put, objects, last_writer>>

hn_vars == <<top_stories, fetched, stories>>
tf_vars == <<threshold, feed_idx, feed, filtered, entries, entry_idx, kept>>
gh_vars == <<lang_idx, pages>>
runs_vars == <<run_pc, run_markdowns, run_put, objects, last_writer>>
invocation_vars == <<pc, is_trigger_event, response, exc, constructed, ran,
                     bucket, markdowns, summarized, summarizer_errors,
                     hn_vars, tf_vars, gh_vars>>

----------------------------------------------------------------------------
\* Bounds of the model.

\* longest top-story id list the Hacker News API returns
MaxStories == 2
\* longest list of entries of an ordinary feed
MaxEntries == 2
\* most repositories on one trending page
MaxRepos == 2
\* most summarizer calls of one tech_feed run that raise
MaxSummarizerErrors == 1

----------------------------------------------------------------------------
\* Python helpers.

\* dict.get(k, default)
Get(d, k, default) == IF k \in DOMAIN d THEN d[k] ELSE default

\* the empty dict
EmptyDict == <<>>

\* seq[:n]
Take(seq, n) == SubSeq(seq, 1, IF Len(seq) < n THEN Len(seq) ELSE n)

\* len(text)
TextLen(t) == t.plain + t.markup

\* bool(text): None and "" are falsy
Truthy(t) == t.kind # "None" /\ TextLen(t) > 0

NoneText == [kind |-> "None", plain |-> 0, markup |-> 0]

\* sep.join(parts), as the sequence of parts and separators
RECURSIVE Join(_, _)
Join(sep, parts) ==
    IF Len(parts) = 0 THEN <<>>
    ELSE IF Len(parts) = 1 THEN <<parts[1]>>
    ELSE <<parts[1], sep>> \o Join(sep, Tail(parts))

----------------------------------------------------------------------------
\* The invocation payloads.

\* requestContext of a Function URL call (payload format 2.0), by method
HttpContext(method) == [http |-> [method |-> method]]

\* requestContext of a REST API call (payload format 1.0): no "http" key
RestContext == [httpMethod |-> "POST"]

\* The JSON documents (and one non-document) a caller sends as the body.
JsonTexts ==
    { "{\"source\": \"aws.events\"}", "{\"source\": \"manual\"}", "{}",
      "[]", "\"aws.events\"", "42", "null", "not json" }

\* A body string: the text itself, or (b64) its Base64 encoding.
Bodies == [b64 : BOOLEAN, text : JsonTexts]

SchedulerEvents == { [source |-> "aws.events"] }

HttpEvents ==
    { [requestContext |-> rc, body |-> b, isBase64Encoded |-> e] :
        rc \in {HttpContext("POST"), HttpContext("GET"), RestContext},
        b \in Bodies, e \in BOOLEAN }
    \cup { [requestContext |-> HttpContext("POST")] }
    \cup { [requestContext |-> HttpContext("POST"), source |-> "manual",
            body |-> [b64 |-> FALSE, text |-> "{\"source\": \"aws.events\"}"]] }

OtherEvents == { [source |-> "manual"], [version |-> "0"] }

Events == SchedulerEvents \cup HttpEvents \cup OtherEvents

Jobs == {"hacker_news", "github_trending", "tech_feed"}

----------------------------------------------------------------------------
\* lambda_handler: the invocation gate.

\* json.loads: the parsed value, or ok = FALSE for json.JSONDecodeError
json_loads(s) ==
    CASE s = "{\"source\": \"aws.events\"}" ->
            [ok |-> TRUE, type |-> "dict", value |-> [source |-> "aws.events"]]
      [] s = "{\"source\": \"manual\"}" ->
            [ok |-> TRUE, type |-> "dict", value |-> [source |-> "manual"]]
      [] s = "{}"             -> [ok |-> TRUE, type |-> "dict", value |-> EmptyDict]
      [] s = "[]"             -> [ok |-> TRUE, type |-> "list", value |-> EmptyDict]
      [] s = "\"aws.events\"" -> [ok |-> TRUE, type |-> "str", value |-> EmptyDict]
      [] s = "42"             -> [ok |-> TRUE, type |-> "int", value |-> EmptyDict]
      [] s = "null"           -> [ok |-> TRUE, type |-> "NoneType", value |-> EmptyDict]
      [] OTHER                -> [ok |-> FALSE, type |-> "None", value |-> EmptyDict]

\* The characters of a body string as json.loads sees them: a Base64
\* encoding is not a JSON document.
AsText(b) == IF b.b64 THEN "not json" ELSE b.text

\* base64.b64decode(body_str).decode('utf-8') with its except clause: the
\* text that was encoded; for a string that is no Base64 encoding either
\* the fallback "{}" or whatever the surviving characters decode to.
b64decode(b) == IF b.b64 THEN {b.text} ELSE {"{}", "not json"}

\* fault: the scheduler check compares with a misspelt tag
IsScheduler_WrongTag(e) == Get(e, "source", "None") = "aws.event"

\* event.get("source") == "aws.events"
IsScheduler(e) == Get(e, "source", "None") = "aws.events"

\* "requestContext" in event and event.get("requestContext", {})
\*     .get("http", {}).get("method") == "POST"
IsHttpPost(e) ==
    /\ "requestContext" \in DOMAIN e
    /\ Get(Get(Get(e, "requestContext", EmptyDict), "http", EmptyDict),
           "method", "None") = "POST"

\* body_str after the optional Base64 step (the possible values)
BodyStrs(e) ==
    IF "body" \notin DOMAIN e THEN {"{}"}
    ELSE IF Get(e, "isBase64Encoded", FALSE) THEN b64decode(e.body)
    ELSE {AsText(e.body)}

\* What the body check does with body_str: "trigger", "no_trigger"
\* (including a caught JSONDecodeError), or the exception that escapes.
BodyCheck(s) ==
    LET body_json == json_loads(s)
    IN  IF ~body_json.ok THEN "no_trigger"
        ELSE IF body_json.type # "dict" THEN "AttributeError"
        ELSE IF Get(body_json.value, "source", "None") = "aws.events"
             THEN "trigger"
        ELSE "no_trigger"

\* The outcomes of lines 183-210 for an event.
GateOutcomes(e) ==
    IF IsScheduler(e) THEN {"trigger"}
    ELSE IF IsHttpPost(e) THEN {BodyCheck(s) : s \in BodyStrs(e)}
    ELSE {"no_trigger"}

JsonHeaders == [ContentType |-> "application/json"]

SuccessResponse(j) ==
    [statusCode |-> 200, headers |-> JsonHeaders,
     body |-> [message |-> <<j, "triggered successfully">>]]

\* fault: the client-error response does not look at requestContext
BadRequestResponse_AlwaysBody(e) ==
    [statusCode |-> 400, headers |-> JsonHeaders,
     body |-> [message |-> <<"Invalid request", "None">>]]

BadRequestResponse(e) ==
    IF "requestContext" \in DOMAIN e
    THEN [statusCode |-> 400, headers |-> JsonHeaders,
          body |-> [message |-> <<"Invalid request", "None">>]]
    ELSE [statusCode |-> 400]

\* fault: the server-error response is always the bare status code
ServerErrorResponse_Bare(e, x) == [statusCode |-> 500]

ServerErrorResponse(e, x) ==
    IF "requestContext" \in DOMAIN e
    THEN [statusCode |-> 500, headers |-> JsonHeaders,
          body |-> [message |-> <<"Internal server error", x>>]]
    ELSE [statusCode |-> 500]

\* except Exception as e: the handler returns the server-error response
Raise(x) ==
    /\ pc' = "returned"
    /\ exc' = x
    /\ response' = ServerErrorResponse(event, x)

HandlerGate ==
    /\ pc = "handler"
    /\ \E o \in GateOutcomes(event) :
         IF o = "trigger"
         THEN /\ is_trigger_event' = TRUE
              /\ pc' = "construct"
              /\ UNCHANGED <<response, exc>>
         ELSE IF o = "no_trigger"
         THEN /\ pc' = "returned"
              /\ response' = BadRequestResponse(event)
              /\ UNCHANGED <<is_trigger_event, exc>>
         ELSE /\ Raise(o)
              /\ UNCHANGED is_trigger_event
    /\ UNCHANGED <<runs_vars, job, event, constructed, ran, bucket, markdowns, summarized,
                   summarizer_errors, hn_vars, tf_vars, gh_vars>>

\* tech_feed: Config.threshold_days, and the seconds of timedelta(days=1)
threshold_days == 1
SecondsPerDay == 86400

\* datetime.now() at construction, in seconds
NowValues == {200000}

\* The job's constructor (HackerNewsRetriever(), GithubTrending(),
\* TechFeed()): os.environ["BUCKET_NAME"] raises KeyError when the variable
\* is not set.  TechFeed also fixes its threshold from the clock.
Construct ==
    /\ pc = "construct"
    /\ constructed' = constructed + 1
    /\ \E x \in {"None", "KeyError"} :
         IF x = "None"
         THEN /\ pc' = "call"
              /\ IF job = "tech_feed"
                 THEN \E now \in NowValues :
                        threshold' = now - threshold_days * SecondsPerDay
                 ELSE UNCHANGED threshold
              /\ UNCHANGED <<response, exc>>
         ELSE /\ Raise(x)
              /\ UNCHANGED threshold
    /\ UNCHANGED <<runs_vars, job, event, is_trigger_event, ran, bucket, markdowns,
                   summarized, summarizer_errors, hn_vars, gh_vars, feed_idx,
                   feed, filtered, entries, entry_idx, kept>>

\* retriever() / github_trending_() / tech_feed_(): the job is entered
Call ==
    /\ pc = "call"
    /\ ran' = ran + 1
    /\ pc' = CASE job = "hacker_news" -> "hn_ids"
               [] job = "github_trending" -> "gh_loop"
               [] job = "tech_feed" -> "tf_loop"
    /\ UNCHANGED <<runs_vars, job, event, is_trigger_event, response, exc, constructed,
                   bucket, markdowns, summarized, summarizer_errors, hn_vars,
                   tf_vars, gh_vars>>

\* The job returned: the handler returns the success response.
Finish ==
    /\ pc = "finish"
    /\ pc' = "returned"
    /\ response' = SuccessResponse(job)
    /\ UNCHANGED <<runs_vars, job, event, is_trigger_event, exc, constructed, ran, bucket,
                   markdowns, summarized, summarizer_errors, hn_vars, tf_vars,
                   gh_vars>>

----------------------------------------------------------------------------
\* _store_summaries, the same in the three jobs.

\* date.today().strftime("%Y-%m-%d") at the time of the write
Dates == {"2025-05-01", "2025-05-02"}

\* fault: the key does not carry the date
S3Key_Undated(j, date_str) == <<j, "/", "latest", ".md">>

\* Config.summary_index_s3_key_format.format(date=date_str)
S3Key(j, date_str) == <<j, "/", date_str, ".md">>

\* What put_object does: it stores the object, raises ClientError (caught
\* by _store_summaries), or raises an error of another class (not caught).
PutOutcomes == {"stored", "ClientError", "EndpointConnectionError"}

\* fault: _store_summaries lets the ClientError of put_object through
StoreSummaries_Escalates(summaries) ==
    \E date_str \in Dates, o \in PutOutcomes :
        /\ bucket' = Append(bucket,
                [Key |-> S3Key(job, date_str),
                 Body |-> Join("\n---\n", summaries),
                 outcome |-> o])
        /\ IF o # "stored"
           THEN Raise(o)
           ELSE pc' = "finish" /\ UNCHANGED <<response, exc>>

\* _store_summaries(summaries), then the rest of the handler's try block
StoreSummaries(summaries) ==
    \E date_str \in Dates, o \in PutOutcomes :
        /\ bucket' = Append(bucket,
                [Key |-> S3Key(job, date_str),
                 Body |-> Join("\n---\n", summaries),
                 outcome |-> o])
        /\ IF o = "EndpointConnectionError"
           THEN Raise(o)
           ELSE pc' = "finish" /\ UNCHANGED <<response, exc>>

----------------------------------------------------------------------------
\* hacker_news: HackerNewsRetriever.

hacker_news_num_top_stories == 30
MinScore == 20
MinSummaryLen == 100
MaxSummaryLen == 10000

\* the (plain, markup) sizes of the inline texts the API returns
TextSizes ==
    { <<0, 0>>, <<0, 7>>, <<95, 0>>, <<95, 6>>, <<100, 0>>, <<101, 0>>,
      <<9999, 0>>, <<9999, 6>>, <<9994, 6>>, <<10000, 0>> }

Texts == { [kind |-> "html", plain |-> z[1], markup |-> z[2]] : z \in TextSizes }

\* The item dicts the API can return for a story id.  A deleted item has
\* neither title nor score.
StoryItems(story_id) ==
    LET base(score) == [id |-> story_id, title |-> story_id, score |-> score]
        with_url(d) == [k \in DOMAIN d \cup {"url"} |->
                          IF k = "url" THEN "https://example.com" ELSE d[k]]
        with_text(d, t) == [k \in DOMAIN d \cup {"text"} |->
                          IF k = "text" THEN t ELSE d[k]]
    IN  { [id |-> story_id, deleted |-> TRUE] }
        \cup { with_url(base(MinScore - 1)),
               with_text(base(MinScore - 1),
                         [kind |-> "html", plain |-> 101, markup |-> 0]) }
        \cup { base(MinScore), with_url(base(MinScore)) }
        \cup { with_text(base(MinScore), t) : t \in Texts }
        \cup { with_url(with_text(base(MinScore),
                         [kind |-> "html", plain |-> 95, markup |-> 6])) }

\* _cleanse_text: BeautifulSoup(text).get_text() drops the markup
cleanse_text(t) ==
    IF ~Truthy(t) THEN [kind |-> "html", plain |-> 0, markup |-> 0]
    ELSE [kind |-> "html", plain |-> t.plain, markup |-> 0]

\* the contents _summarize_story sends: the template filled with the title
\* and the cleansed text
SummaryContents(story) ==
    [title |-> story.title, text |-> cleanse_text(story.text)]

\* what generate_content returns for these contents
SummaryOf(contents) == [kind |-> "summary", of |-> contents]

\* fault: the band is measured on the stripped text
InSummaryBand_Plain(t) == MinSummaryLen < t.plain /\ t.plain < MaxSummaryLen

\* the condition of line 87
InSummaryBand(t) == MinSummaryLen < TextLen(t) /\ TextLen(t) < MaxSummaryLen

\* fault: a story with exactly the minimum score is dropped too
BelowMinScore_Inclusive(story) == story.score <= MinScore

\* the condition of line 81
BelowMinScore(story) == story.score < MinScore

\* Story(title=..., score=..., url=story.get("url"),
\*       text=story.get("text") if summary is None else summary)
MakeStory(story, summary) ==
    [title |-> story.title, score |-> story.score,
     url |-> Get(story, "url", "None"),
     text |-> IF summary.kind = "None" THEN Get(story, "text", NoneText)
              ELSE summary]

\* _stylize_story
stylize_story(story) ==
    [title |-> story.title, score |-> story.score,
     url_or_text |-> IF story.url # "None"
                     THEN [kind |-> "link", url |-> story.url]
                     ELSE story.text]

\* _get_top_storie_ids and the slice of line 73
HN_GetTopStorieIds ==
    /\ pc = "hn_ids"
    /\ \/ \E n \in 0..MaxStories :
            /\ top_stories' = Take([i \in 1..n |-> i], hacker_news_num_top_stories)
            /\ pc' = "hn_loop"
            /\ UNCHANGED <<response, exc>>
       \/ /\ Raise("ConnectionError")
          /\ UNCHANGED top_stories
    /\ UNCHANGED <<runs_vars, job, event, is_trigger_event, constructed, ran, bucket,
                   markdowns, summarized, summarizer_errors, fetched, stories,
                   tf_vars, gh_vars>>

\* One iteration of the loop of lines 76-99 whose item fetch succeeded.
HN_Story ==
    /\ pc = "hn_loop"
    /\ Len(fetched) < Len(top_stories)
    /\ \E story \in StoryItems(top_stories[Len(fetched) + 1]) :
         /\ fetched' = Append(fetched, story)
         /\ IF "score" \notin DOMAIN story
            THEN /\ Raise("KeyError")
                 /\ UNCHANGED <<stories, summarized>>
            ELSE IF BelowMinScore(story)
            THEN UNCHANGED <<pc, response, exc, stories, summarized>>
            ELSE IF ~Truthy(Get(story, "text", NoneText))
            THEN /\ stories' = Append(stories, MakeStory(story, NoneText))
                 /\ UNCHANGED <<pc, response, exc, summarized>>
            ELSE IF ~InSummaryBand(story.text)
            THEN /\ stories' = Append(stories,
                                      MakeStory(story, cleanse_text(story.text)))
                 /\ UNCHANGED <<pc, response, exc, summarized>>
            ELSE /\ summarized' = Append(summarized, SummaryContents(story))
                 /\ \E ok \in BOOLEAN :
                      IF ok
                      THEN /\ stories' = Append(stories,
                                 MakeStory(story, SummaryOf(SummaryContents(story))))
                           /\ UNCHANGED <<pc, response, exc>>
                      ELSE /\ Raise("APIError")
                           /\ UNCHANGED stories
    /\ UNCHANGED <<runs_vars, job, event, is_trigger_event, constructed, ran, bucket,
                   markdowns, summarizer_errors, top_stories, tf_vars, gh_vars>>

\* An iteration whose item fetch (_get_story) raised.
HN_StoryFetchError ==
    /\ pc = "hn_loop"
    /\ Len(fetched) < Len(top_stories)
    /\ Raise("ConnectionError")
    /\ UNCHANGED <<runs_vars, job, event, is_trigger_event, constructed, ran, bucket,
                   markdowns, summarized, summarizer_errors, hn_vars, tf_vars,
                   gh_vars>>

\* fault: the empty list is not checked and an empty digest is stored
HN_NoStories_WritesEmpty ==
    /\ pc = "hn_loop"
    /\ Len(fetched) = Len(top_stories)
    /\ stories = <<>>
    /\ StoreSummaries(<<>>)
    /\ UNCHANGED <<runs_vars, job, event, is_trigger_event, constructed, ran, markdowns,
                   summarized, summarizer_errors, hn_vars, tf_vars, gh_vars>>

\* _get_top_stories returned an empty list: lines 51-53
HN_NoStories ==
    /\ pc = "hn_loop"
    /\ Len(fetched) = Len(top_stories)
    /\ stories = <<>>
    /\ pc' = "finish"
    /\ UNCHANGED <<runs_vars, job, event, is_trigger_event, response, exc, constructed,
                   ran, bucket, markdowns, summarized, summarizer_errors,
                   hn_vars, tf_vars, gh_vars>>

\* lines 54-55: render every story and store the digest
HN_Publish ==
    /\ pc = "hn_loop"
    /\ Len(fetched) = Len(top_stories)
    /\ stories # <<>>
    /\ markdowns' = [i \in 1..Len(stories) |-> stylize_story(stories[i])]
    /\ StoreSummaries(markdowns')
    /\ UNCHANGED <<runs_vars, job, event, is_trigger_event, constructed, ran, summarized,
                   summarizer_errors, hn_vars, tf_vars, gh_vars>>

----------------------------------------------------------------------------
\* tech_feed: TechFeed.

\* Config.load_feeds(): the feed names of feed.toml, in file order
Feeds == <<"feedA", "feedB">>

tech_feed_max_entries_per_day == 10

\* A parsed date is a struct_time that time.mktime converts to seconds
\* since the epoch (ok, t) or one it rejects with OverflowError.  The feeds
\* carry the dates 113599, 113600 and 113601: one second before, at and
\* after the threshold of a job constructed at 200000.
BadDate == [ok |-> FALSE, t |-> 0]

\* The entries a feed can carry at position i.  RSS requires neither a
\* link nor a date of an item.
FeedEntries(i) ==
    LET e == [id |-> i, title |-> i]
        put(d, k, v) == [x \in DOMAIN d \cup {k} |-> IF x = k THEN v ELSE d[x]]
        recent == [ok |-> TRUE, t |-> 113601]
    IN  { put(e, "link", "https://site/article"),
          e,
          put(put(e, "link", "https://site/article"), "date_parsed", BadDate),
          put(put(e, "link", "https://site/article"), "date_parsed",
              [ok |-> TRUE, t |-> 113599]),
          put(put(e, "link", "https://site/article"), "published_parsed",
              [ok |-> TRUE, t |-> 113600]),
          put(put(e, "link", "https://site/article"), "date_parsed", recent),
          put(put(e, "link", "https://site/empty"), "published_parsed", recent),
          put(put(e, "link", "https://site/blank"), "date_parsed", recent),
          put(put(e, "link", "https://site/down"), "date_parsed", recent),
          put(e, "date_parsed", recent) }

\* the feeds with more recent entries than the cap
LongFeedLens == {tech_feed_max_entries_per_day + 1}

LongFeed(n) ==
    [i \in 1..n |-> [id |-> i, title |-> i, link |-> "https://site/article",
                     date_parsed |-> [ok |-> TRUE, t |-> 113601]]]

\* feed_parser["entries"] of a feed that feedparser could read; a feed it
\* could not read (bozo) has no entries
ParsedFeeds ==
    UNION { { f \in [1..n -> UNION {FeedEntries(i) : i \in 1..n}] :
                \A i \in 1..n : f[i] \in FeedEntries(i) } : n \in 0..MaxEntries }
    \cup { LongFeed(n) : n \in LongFeedLens }

\* entry.get("date_parsed") or entry.get("published_parsed")
EntryDate(entry) ==
    IF "date_parsed" \in DOMAIN entry THEN entry.date_parsed
    ELSE IF "published_parsed" \in DOMAIN entry THEN entry.published_parsed
    ELSE [ok |-> FALSE, t |-> -1]

HasDate(entry) == "date_parsed" \in DOMAIN entry \/ "published_parsed" \in DOMAIN entry

\* What one iteration of the loop of _filter_entries does with an entry:
\* "keep", "drop", or "raise" (the diagnostic reads entry.link, which
\* raises AttributeError on an entry without a link).
FilterStep(entry, thr) ==
    IF ~HasDate(entry)
    THEN IF "link" \in DOMAIN entry THEN "drop" ELSE "raise"
    ELSE IF ~EntryDate(entry).ok
    THEN IF "link" \in DOMAIN entry THEN "drop" ELSE "raise"
    ELSE IF EntryDate(entry).t > thr THEN "keep"
    ELSE "drop"

\* _filter_entries: the list it returns, or raised = TRUE
RECURSIVE filter_entries(_, _)
filter_entries(es, thr) ==
    IF es = <<>> THEN [raised |-> FALSE, out |-> <<>>]
    ELSE LET step == FilterStep(Head(es), thr)
             rest == filter_entries(Tail(es), thr)
         IN  IF step = "raise" THEN [raised |-> TRUE, out |-> <<>>]
             ELSE IF rest.raised THEN rest
             ELSE IF step = "keep"
                  THEN [raised |-> FALSE, out |-> <<Head(es)>> \o rest.out]
             ELSE rest

\* lines 72-73
cap_entries(es) ==
    IF Len(es) > tech_feed_max_entries_per_day
    THEN Take(es, tech_feed_max_entries_per_day)
    ELSE es

\* What requests.get(entry.link) and the text extraction give for a link:
\* the article's text (25000 characters, none, or whitespace only), or
\* "raise" when the request fails.
ArticleText(link) ==
    CASE link = "https://site/article" -> [kind |-> "html", plain |-> 25000, markup |-> 0]
      [] link = "https://site/empty"   -> [kind |-> "html", plain |-> 0, markup |-> 0]
      [] link = "https://site/blank"   -> [kind |-> "space", plain |-> 3, markup |-> 0]
      [] OTHER                         -> [kind |-> "raise", plain |-> 0, markup |-> 0]

\* _retrieve_article: the Article, or raised = TRUE (the wrapped exception)
retrieve_article(entry, feed_name) ==
    IF "link" \notin DOMAIN entry \/ ArticleText(Get(entry, "link", "None")).kind = "raise"
    THEN [raised |-> TRUE, feed_name |-> feed_name, title |-> entry.title,
          url |-> "None", text |-> NoneText]
    ELSE [raised |-> FALSE, feed_name |-> feed_name, title |-> entry.title,
          url |-> entry.link, text |-> ArticleText(entry.link)]

\* not article.text or article.text.isspace(): a text of kind "space"
\* consists of whitespace only
IsBlank(t) == ~Truthy(t) \/ t.kind = "space"

\* article.text[:20000]
article_text_limit == 20000
TruncatedText(t) ==
    [t EXCEPT !.plain = IF t.plain > article_text_limit
                        THEN article_text_limit ELSE t.plain]

\* fault: only the empty text is recognised, not the whitespace-only one
summarize_article_NoSpaceCheck(article, ok) ==
    IF ~Truthy(article.text)
    THEN [kind |-> "placeholder", of |-> "Content could not be retrieved or was empty."]
    ELSE IF ok
    THEN [kind |-> "summary", of |-> article.title]
    ELSE [kind |-> "error", of |-> "Error summarizing content"]

\* _summarize_article, given whether the summarizer call succeeds
summarize_article(article, ok) ==
    IF IsBlank(article.text)
    THEN [kind |-> "placeholder", of |-> "Content could not be retrieved or was empty."]
    ELSE IF ok
    THEN [kind |-> "summary", of |-> article.title]
    ELSE [kind |-> "error", of |-> "Error summarizing content"]

\* _stylize_article
stylize_article(article, summary) ==
    [title |-> article.title, feed_name |-> article.feed_name,
     url |-> article.url, summary |-> summary]

\* line 70: feedparser.parse(feed_url).  Two consecutive feeds carry at
\* most MaxEntries entries together, unless one of them is a long feed.
TF_Parse ==
    /\ pc = "tf_loop"
    /\ feed_idx < Len(Feeds)
    /\ \/ \E f \in ParsedFeeds :
            /\ Len(f) \in 1..MaxEntries => Len(f) + Len(feed) <= MaxEntries
            /\ feed' = f
            /\ pc' = "tf_filter"
            /\ UNCHANGED <<response, exc>>
       \/ /\ Raise("IncompleteRead")
          /\ UNCHANGED feed
    /\ UNCHANGED <<runs_vars, job, event, is_trigger_event, constructed, ran, bucket,
                   markdowns, summarized, summarizer_errors, hn_vars, gh_vars,
                   threshold, feed_idx, filtered, entries, entry_idx, kept>>

\* lines 71-73: filter the entries and apply the cap; with nothing left the
\* loop goes on to the next feed
TF_Filter ==
    /\ pc = "tf_filter"
    /\ LET r == filter_entries(feed, threshold)
       IN  IF r.raised
           THEN /\ Raise("AttributeError")
                /\ UNCHANGED <<filtered, entries, entry_idx, kept, feed_idx>>
           ELSE /\ filtered' = r.out
                /\ entries' = cap_entries(r.out)
                /\ entry_idx' = 0
                /\ kept' = kept \o [i \in 1..Len(entries') |->
                                      <<Feeds[feed_idx + 1], entries'[i].id>>]
                /\ IF entries' = <<>>
                   THEN pc' = "tf_loop" /\ feed_idx' = feed_idx + 1
                   ELSE pc' = "tf_entries" /\ UNCHANGED feed_idx
                /\ UNCHANGED <<response, exc>>
    /\ UNCHANGED <<runs_vars, job, event, is_trigger_event, constructed, ran, bucket,
                   markdowns, summarized, summarizer_errors, hn_vars, gh_vars,
                   threshold, feed>>

\* lines 75-79: one entry is retrieved, summarized and rendered
TF_Entry ==
    /\ pc = "tf_entries"
    /\ entry_idx < Len(entries)
    /\ LET entry == entries[entry_idx + 1]
           article == retrieve_article(entry, Feeds[feed_idx + 1])
       IN  IF article.raised
           THEN /\ Raise("Exception")
                /\ UNCHANGED <<markdowns, summarized, summarizer_errors,
                               entry_idx, feed_idx>>
           ELSE /\ \E ok \in BOOLEAN :
                     /\ ~ok => /\ ~IsBlank(article.text)
                               /\ summarizer_errors < MaxSummarizerErrors
                     /\ markdowns' = Append(markdowns,
                            stylize_article(article, summarize_article(article, ok)))
                     /\ summarizer_errors' =
                            IF ok THEN summarizer_errors ELSE summarizer_errors + 1
                /\ summarized' = IF ~IsBlank(article.text)
                                 THEN Append(summarized,
                                        [title |-> article.title,
                                         text |-> TruncatedText(article.text)])
                                 ELSE summarized
                /\ entry_idx' = entry_idx + 1
                /\ IF entry_idx' = Len(entries)
                   THEN pc' = "tf_loop" /\ feed_idx' = feed_idx + 1
                   ELSE UNCHANGED <<pc, feed_idx>>
                /\ UNCHANGED <<response, exc>>
    /\ UNCHANGED <<runs_vars, job, event, is_trigger_event, constructed, ran, bucket,
                   hn_vars, gh_vars, threshold, feed, filtered, entries, kept>>

\* line 80
TF_Store ==
    /\ pc = "tf_loop"
    /\ feed_idx = Len(Feeds)
    /\ StoreSummaries(markdowns)
    /\ UNCHANGED <<runs_vars, job, event, is_trigger_event, constructed, ran, markdowns,
                   summarized, summarizer_errors, hn_vars, tf_vars, gh_vars>>

----------------------------------------------------------------------------
\* github_trending: GithubTrending.

\* Config.load_languages(): the language names of languages.toml, in order
Languages == <<"python", "rust">>

\* the text of the stargazers link of a repository block, as characters
StarTexts == { <<"9", "8", "7">>, <<"1", ",", "2", "3", "4">>, <<"1", ".", "2", "k">> }

Digits == {"0", "1", "2", "3", "4", "5", "6", "7", "8", "9"}

DigitValue(c) ==
    CASE c = "0" -> 0 [] c = "1" -> 1 [] c = "2" -> 2 [] c = "3" -> 3
      [] c = "4" -> 4 [] c = "5" -> 5 [] c = "6" -> 6 [] c = "7" -> 7
      [] c = "8" -> 8 [] c = "9" -> 9

\* str.replace(",", "")
RECURSIVE strip_commas(_)
strip_commas(cs) ==
    IF cs = <<>> THEN <<>>
    ELSE IF Head(cs) = "," THEN strip_commas(Tail(cs))
    ELSE <<Head(cs)>> \o strip_commas(Tail(cs))

RECURSIVE digits_value(_, _)
digits_value(cs, acc) ==
    IF cs = <<>> THEN acc
    ELSE digits_value(Tail(cs), 10 * acc + DigitValue(Head(cs)))

\* int(text.replace(",", "")): the number, or ok = FALSE for ValueError
parse_stars(cs) ==
    LET ds == strip_commas(cs)
    IN  IF ds # <<>> /\ \A i \in 1..Len(ds) : ds[i] \in Digits
        THEN [ok |-> TRUE, n |-> digits_value(ds, 0)]
        ELSE [ok |-> FALSE, n |-> 0]

\* The repository blocks a trending page can show at position i: with or
\* without a description, and one without a stargazers link.
RepoBlocks(language, i) ==
    { [name |-> <<language, i>>, description |-> "a description", stars |-> st] :
        st \in StarTexts }
    \cup { [name |-> <<language, i>>, stars |-> <<"9", "8", "7">>],
           [name |-> <<language, i>>, description |-> "a description"] }

TrendingPages(language) ==
    UNION { { p \in [1..n -> UNION {RepoBlocks(language, i) : i \in 1..n}] :
                \A i \in 1..n : p[i] \in RepoBlocks(language, i) } : n \in 0..MaxRepos }

\* fault: a block that cannot be parsed ends the list, and the blocks
\* before it are returned
RECURSIVE retrieve_repositories_Partial(_)
retrieve_repositories_Partial(page) ==
    IF page = <<>> THEN [raised |-> FALSE, out |-> <<>>]
    ELSE LET repo == Head(page)
             rest == retrieve_repositories_Partial(Tail(page))
         IN  IF "stars" \notin DOMAIN repo THEN [raised |-> FALSE, out |-> <<>>]
             ELSE IF ~parse_stars(repo.stars).ok THEN [raised |-> FALSE, out |-> <<>>]
             ELSE [raised |-> FALSE,
                   out |-> << [name |-> repo.name,
                               description |-> Get(repo, "description", "None"),
                               link |-> <<"https://github.com/", repo.name>>,
                               stars |-> parse_stars(repo.stars).n] >> \o rest.out]

\* _retrieve_repositories on a fetched page: the list, or raised = TRUE
RECURSIVE retrieve_repositories(_)
retrieve_repositories(page) ==
    IF page = <<>> THEN [raised |-> FALSE, out |-> <<>>]
    ELSE LET repo == Head(page)
             rest == retrieve_repositories(Tail(page))
         IN  IF "stars" \notin DOMAIN repo THEN [raised |-> TRUE, out |-> <<>>]
             ELSE IF ~parse_stars(repo.stars).ok THEN [raised |-> TRUE, out |-> <<>>]
             ELSE IF rest.raised THEN rest
             ELSE [raised |-> FALSE,
                   out |-> << [name |-> repo.name,
                               description |-> Get(repo, "description", "None"),
                               link |-> <<"https://github.com/", repo.name>>,
                               stars |-> parse_stars(repo.stars).n] >> \o rest.out]

\* _stylize_repository_info
stylize_repository_info(repository) ==
    [title |-> repository.name, score |-> repository.stars,
     url |-> repository.link,
     description |-> IF repository.description = "None" THEN "No description"
                     ELSE repository.description]

\* lines 62-74: one language; a failure of the fetch or of the parse is
\* caught and the loop continues
GH_Language ==
    /\ pc = "gh_loop"
    /\ lang_idx < Len(Languages)
    /\ lang_idx' = lang_idx + 1
    /\ \/ \E page \in TrendingPages(Languages[lang_idx + 1]) :
            LET r == retrieve_repositories(page)
            IN  /\ pages' = Append(pages, [fetched |-> TRUE, page |-> page])
                /\ markdowns' =
                      IF r.raised THEN markdowns
                      ELSE markdowns \o [i \in 1..Len(r.out) |->
                                            stylize_repository_info(r.out[i])]
       \/ /\ pages' = Append(pages, [fetched |-> FALSE, page |-> <<>>])
          /\ UNCHANGED markdowns
    /\ UNCHANGED <<runs_vars, job, event, pc, is_trigger_event, response, exc, constructed,
                   ran, bucket, summarized, summarizer_errors, hn_vars, tf_vars>>

\* line 75
GH_Store ==
    /\ pc = "gh_loop"
    /\ lang_idx = Len(Languages)
    /\ StoreSummaries(markdowns)
    /\ UNCHANGED <<runs_vars, job, event, is_trigger_event, constructed, ran, markdowns,
                   summarized, summarizer_errors, hn_vars, tf_vars, gh_vars>>

----------------------------------------------------------------------------
\* Several runs of one job against the same bucket.  Each run is the job's
\* __call__: it collects its fragments, then _store_summaries issues one
\* put_object.  The runs share nothing but the bucket, and S3 applies each
\* put_object as a whole, so the steps of the runs interleave freely and a
\* put is one step.

NumRuns == 2
Runs == 1..NumRuns

NoPut == [Key |-> <<>>, date |-> "None", outcome |-> "None"]

\* the lists of rendered fragments a run's loop can end with
RunDigests ==
    LET a == [title |-> "a"]
        b == [title |-> "b"]
    IN  { <<>>, <<a>>, <<b>>, <<a, b>> }

\* fault: a put to an existing key appends to the stored object
S3Put_Append(objs, key, body) ==
    [k \in DOMAIN objs \cup {key} |->
        IF k = key
        THEN (IF key \in DOMAIN objs THEN objs[key] \o body ELSE body)
        ELSE objs[k]]

\* put_object(Bucket, Key, Body) when S3 accepts it: the object under Key
\* is Body, whatever was there before
S3Put(objs, key, body) ==
    [k \in DOMAIN objs \cup {key} |-> IF k = key THEN body ELSE objs[k]]

\* __call__ up to the call of _store_summaries: the run has its fragments
RunCall ==
    \E r \in Runs, md \in RunDigests :
        /\ run_pc[r] = "call"
        /\ run_pc' = [run_pc EXCEPT ![r] = "store"]
        /\ run_markdowns' = [run_markdowns EXCEPT ![r] = md]
        /\ UNCHANGED <<job, event, invocation_vars, run_put, objects, last_writer>>

\* hacker_news.py lines 51-53: without stories the run returns
RunNoStories ==
    \E r \in Runs :
        /\ run_pc[r] = "store"
        /\ job = "hacker_news"
        /\ run_markdowns[r] = <<>>
        /\ run_pc' = [run_pc EXCEPT ![r] = "done"]
        /\ UNCHANGED <<job, event, invocation_vars, run_markdowns, run_put,
                       objects, last_writer>>

\* _store_summaries of one run
RunStoreSummaries ==
    \E r \in Runs, date_str \in Dates, o \in PutOutcomes :
        /\ run_pc[r] = "store"
        /\ job = "hacker_news" => run_markdowns[r] # <<>>
        /\ LET key == S3Key(job, date_str)
               content == Join("\n---\n", run_markdowns[r])
           IN  /\ run_put' = [run_put EXCEPT
                        ![r] = [Key |-> key, date |-> date_str, outcome |-> o]]
               /\ IF o = "stored"
                  THEN /\ objects' = S3Put(objects, key, content)
                       /\ last_writer' = [k \in DOMAIN last_writer \cup {key} |->
                                            IF k = key THEN r ELSE last_writer[k]]
                  ELSE UNCHANGED <<objects, last_writer>>
        /\ run_pc' = [run_pc EXCEPT ![r] = "done"]
        /\ UNCHANGED <<job, event, invocation_vars, run_markdowns>>

----------------------------------------------------------------------------
\* The specification: one invocation of one lambda.

Init ==
    /\ job \in Jobs
    /\ event \in Events
    /\ pc = "handler"
    /\ is_trigger_event = FALSE
    /\ response = [statusCode |-> 0]
    /\ exc = "None"
    /\ constructed = 0
    /\ ran = 0
    /\ bucket = <<>>
    /\ markdowns = <<>>
    /\ top_stories = <<>>
    /\ fetched = <<>>
    /\ stories = <<>>
    /\ summarized = <<>>
    /\ summarizer_errors = 0
    /\ threshold = 0
    /\ feed_idx = 0
    /\ feed = <<>>
    /\ filtered = <<>>
    /\ entries = <<>>
    /\ entry_idx = 0
    /\ kept = <<>>
    /\ lang_idx = 0
    /\ pages = <<>>
    /\ run_pc = [r \in Runs |-> "call"]
    /\ run_markdowns = [r \in Runs |-> <<>>]
    /\ run_put = [r \in Runs |-> NoPut]
    /\ objects = EmptyDict
    /\ last_writer = EmptyDict

Next ==
    \/ HandlerGate
    \/ Construct
    \/ Call
    \/ Finish
    \/ HN_GetTopStorieIds
    \/ HN_Story
    \/ HN_StoryFetchError
    \/ HN_NoStories
    \/ HN_Publish
    \/ TF_Parse
    \/ TF_Filter
    \/ TF_Entry
    \/ TF_Store
    \/ GH_Language
    \/ GH_Store

Spec == Init /\ [][Next]_vars

\* The specification of several runs of one job, each started by the
\* scheduler.
RunsInit == Init /\ event \in SchedulerEvents

RunsNext ==
    \/ RunCall
    \/ RunNoStories
    \/ RunStoreSummaries

SpecRuns == RunsInit /\ [][RunsNext]_vars

----------------------------------------------------------------------------
\* Properties of lambda_handler.

\* the invocation carries the scheduler's source tag at the top level
SchedulerShaped == "source" \in DOMAIN event /\ event.source = "aws.events"

\* the invocation is HTTP-shaped
HttpShaped == "requestContext" \in DOMAIN event

\* the response is the bare status code
BareResponse == DOMAIN response = {"statusCode"}

\* the response carries headers and a JSON body with a message
FullResponse ==
    /\ DOMAIN response = {"statusCode", "headers", "body"}
    /\ "message" \in DOMAIN response.body

\* C1 as stated: a scheduler-shaped invocation constructs and runs the job
\* exactly once and returns status 200.
C1_SchedulerRunsOnce200 ==
    (pc = "returned" /\ SchedulerShaped) =>
        (constructed = 1 /\ ran = 1 /\ response.statusCode = 200)

\* C1 amended: a scheduler-shaped invocation constructs the job exactly
\* once and runs it at most once; when no exception escapes the constructor
\* or the job, the job ran exactly once and the status is 200; when one
\* escapes, the status is 500.
C1_SchedulerRunsOnce ==
    SchedulerShaped =>
        /\ constructed <= 1 /\ ran <= 1 /\ ran <= constructed
        /\ pc = "returned" =>
             /\ constructed = 1
             /\ exc = "None" => (ran = 1 /\ response.statusCode = 200)
             /\ exc # "None" => response.statusCode = 500

C1_Witness ==
    /\ pc = "returned" /\ SchedulerShaped
    /\ constructed = 1 /\ ran = 1 /\ response.statusCode = 200
    /\ job = "tech_feed" /\ Len(markdowns) = 2

\* the decoded body of the invocation parses as JSON (of any shape) and is
\* not an object whose source is "aws.events"
BodyIsJsonWithoutTag ==
    \A s \in BodyStrs(event) :
        /\ s \in {"{\"source\": \"manual\"}", "{}", "[]", "\"aws.events\"", "42", "null"}

\* C2 as stated: an HTTP POST invocation whose decoded body parses as JSON
\* of any shape and does not carry the source tag is answered with status
\* 400, and the job is neither constructed nor run.
C2_PostWithoutTagIs400 ==
    ( /\ pc = "returned"
      /\ ~SchedulerShaped
      /\ HttpShaped /\ "http" \in DOMAIN event.requestContext
      /\ event.requestContext.http.method = "POST"
      /\ BodyIsJsonWithoutTag )
    => (response.statusCode = 400 /\ constructed = 0 /\ ran = 0)

\* C3: when the constructor or the job of a triggered invocation raises,
\* the handler returns status 500; the response carries headers and a JSON
\* body with a message exactly when the event has requestContext, and is
\* the bare status code otherwise.
C3_JobFailureIs500 ==
    (is_trigger_event /\ exc # "None") =>
        /\ pc = "returned"
        /\ response.statusCode = 500
        /\ IF HttpShaped THEN FullResponse ELSE BareResponse

C3_Witness ==
    /\ is_trigger_event /\ ran = 1 /\ exc = "KeyError"
    /\ job = "hacker_news" /\ HttpShaped
    /\ response.statusCode = 500 /\ FullResponse

\* C4 as stated: whatever the outcome, the response has headers and a body
\* only when the invocation was HTTP-shaped.
C4_BodyOnlyForHttp ==
    pc = "returned" => (~BareResponse => HttpShaped)

\* C4 amended: a 400 or 500 response has headers and a body exactly when
\* the invocation was HTTP-shaped and is the bare status code otherwise; a
\* 200 response always has headers and a body, also for a scheduler run.
C4_ResponseShape ==
    pc = "returned" =>
        /\ response.statusCode \in {200, 400, 500}
        /\ response.statusCode = 200 => FullResponse
        /\ response.statusCode # 200 =>
             IF HttpShaped THEN FullResponse ELSE BareResponse

C4_Witness ==
    /\ pc = "returned" /\ ~HttpShaped /\ SchedulerShaped
    /\ response.statusCode = 200 /\ FullResponse
    /\ job = "github_trending"

----------------------------------------------------------------------------
\* Properties of the Hacker News job.

TitlesOf(seq) == [i \in 1..Len(seq) |-> seq[i].title]

ScoreAtLeast20(story) == "score" \in DOMAIN story /\ story.score >= 20

\* _get_top_stories has not raised (it is running or has returned)
HN_NotRaised ==
    /\ job = "hacker_news" /\ ran = 1
    /\ pc \in {"hn_loop", "finish", "returned"}
    /\ exc \in {"None", "EndpointConnectionError"}

\* _get_top_stories has returned its list
HN_Returned == HN_NotRaised /\ Len(fetched) = Len(top_stories)

\* C5: the list _get_top_stories builds holds exactly the fetched stories
\* whose score is at least 20, in the order of the id list, whatever their
\* text or URL; a digest that is written holds exactly these stories.
C5_ScoreFilter ==
    HN_NotRaised =>
        /\ TitlesOf(stories) = TitlesOf(SelectSeq(fetched, ScoreAtLeast20))
        /\ \A i \in 1..Len(bucket) :
             bucket[i].Body = Join("\n---\n", markdowns)
             /\ TitlesOf(markdowns) = TitlesOf(SelectSeq(fetched, ScoreAtLeast20))

C5_Witness ==
    /\ HN_Returned /\ pc = "returned" /\ Len(bucket) = 1
    /\ Len(fetched) = 2 /\ TitlesOf(stories) = <<2>>
    /\ fetched[1].score = 19 /\ "text" \in DOMAIN fetched[1]
    /\ fetched[2].score = 20

SummarizerCalledFor(title) ==
    \E j \in 1..Len(summarized) : summarized[j].title = title

\* the stored text of a story is the summarizer's output for its stripped text
StoredSummary(story, text) ==
    /\ story.text.kind = "summary"
    /\ story.text.of.text = [kind |-> "html", plain |-> text.plain, markup |-> 0]
    /\ SummarizerCalledFor(story.title)

\* the stored text of a story is its HTML-stripped text, not summarized
StoredStripped(story, text) ==
    /\ story.text.kind = "html"
    /\ story.text = [kind |-> "html", plain |-> text.plain, markup |-> 0]
    /\ ~SummarizerCalledFor(story.title)

\* every surviving story with inline text satisfies P(story, text, n), n
\* being the measured length
ForStoriesWithText(P(_, _)) ==
    \A i \in 1..Len(stories) : \A k \in 1..Len(fetched) :
        ( /\ fetched[k].id = stories[i].title
          /\ "text" \in DOMAIN fetched[k]
          /\ TextLen(fetched[k].text) > 0 )
        => P(stories[i], fetched[k].text)

C6_ByPlainLength(story, text) ==
    IF 100 < text.plain /\ text.plain < 10000
    THEN StoredSummary(story, text)
    ELSE StoredStripped(story, text)

C6_ByRawLength(story, text) ==
    IF 100 < text.plain + text.markup /\ text.plain + text.markup < 10000
    THEN StoredSummary(story, text)
    ELSE StoredStripped(story, text)

\* C6 as stated: a surviving story's inline text is summarized exactly when
\* the length of its HTML-stripped text is in (100, 10000), and is stored
\* stripped otherwise.
C6_SummaryBandOnPlainText ==
    job = "hacker_news" => ForStoriesWithText(C6_ByPlainLength)

\* C6 amended: a surviving story's inline text is summarized (the stripped
\* text is sent, the output stored) exactly when the length of the raw
\* text, markup included, is in (100, 10000); otherwise the summarizer is
\* not called and the stripped text is stored.
C6_SummaryBandOnRawText ==
    job = "hacker_news" => ForStoriesWithText(C6_ByRawLength)

C6_Witness ==
    /\ job = "hacker_news" /\ Len(stories) = 2 /\ Len(fetched) = 2
    /\ "text" \in DOMAIN fetched[1] /\ "text" \in DOMAIN fetched[2]
    /\ fetched[1].text.plain = 95 /\ fetched[1].text.markup = 6
    /\ stories[1].text.kind = "summary"
    /\ fetched[2].text.plain = 9999 /\ fetched[2].text.markup = 6
    /\ stories[2].text.kind = "html" /\ stories[2].text.markup = 0

\* C7: when _get_top_stories returns no story, nothing is written and the
\* run ends with status 200; when it returns at least one, put_object is
\* called exactly once.
C7_NoEmptyDigest ==
    /\ Len(bucket) <= 1
    /\ (HN_Returned /\ pc \in {"finish", "returned"}) =>
         /\ stories = <<>> => (bucket = <<>> /\ exc = "None")
         /\ (stories = <<>> /\ pc = "returned") => response.statusCode = 200
         /\ stories # <<>> => Len(bucket) = 1

C7_Witness ==
    /\ HN_Returned /\ pc = "returned" /\ Len(fetched) = 2
    /\ stories = <<>> /\ bucket = <<>> /\ response.statusCode = 200

----------------------------------------------------------------------------
\* Properties of the tech feed job.

\* the entry has a date that converts and lies strictly after the threshold
DatedAfterThreshold(entry) ==
    /\ \/ "date_parsed" \in DOMAIN entry
       \/ "published_parsed" \in DOMAIN entry
    /\ EntryDate(entry).ok
    /\ EntryDate(entry).t > threshold

\* C8 as stated: _filter_entries keeps, in feed order, exactly the entries
\* dated strictly after the threshold; the others are dropped without an
\* exception.
C8_FilterKeepsRecent ==
    (job = "tech_feed" /\ ran = 1 /\ pc # "tf_filter") =>
        /\ exc # "AttributeError"
        /\ filtered = SelectSeq(feed, DatedAfterThreshold)

\* the entries the run rendered, as <<feed name, entry id>>
Rendered == [i \in 1..Len(markdowns) |-> <<markdowns[i].feed_name, markdowns[i].title>>]

\* C9 as stated: of every feed exactly the first cap entries that pass the
\* filter (all of them when there are no more than cap) are retrieved,
\* summarized and rendered.
C9_FirstCapProcessed ==
    (job = "tech_feed" /\ ran = 1 /\ pc \in {"tf_loop", "finish", "returned"}) =>
        /\ entries = Take(filtered, 10)
        /\ Rendered = kept

\* the entries of the digest written, as <<feed name, entry id>>
DigestEntries ==
    UNION { { <<bucket[i].Body[k].feed_name, bucket[i].Body[k].title>> :
                k \in { x \in 1..Len(bucket[i].Body) : x % 2 = 1 } } :
            i \in 1..Len(bucket) }

\* C10 as stated: after the parse of a feed raised, the run still publishes
\* a digest that holds every entry of the other feeds that passed the
\* filter.
C10_ParseFailureNotFatal ==
    (job = "tech_feed" /\ exc = "IncompleteRead") =>
        /\ Len(bucket) = 1
        /\ \A i \in 1..Len(kept) : kept[i] \in DigestEntries

\* the article of the entry cannot be retrieved: the entry has no link, or
\* the request for its link fails
FetchFails(entry) ==
    "link" \notin DOMAIN entry \/ entry.link = "https://site/down"

\* C11 as stated: when the retrieval of one article fails, only that entry
\* is given up: the run publishes its digest and the invocation does not
\* end with status 500.
C11_ArticleFailureNotFatal ==
    ( /\ job = "tech_feed" /\ ran = 1 /\ pc = "returned"
      /\ \E i \in 1..Len(entries) : FetchFails(entries[i]) )
    => (response.statusCode # 500 /\ Len(bucket) = 1)

----------------------------------------------------------------------------
\* Failures of single items and of the write.

\* the processing of one story failed: its item fetch raised, its item has
\* no score, or the summarizer raised on its text
HN_StoryFailed ==
    /\ job = "hacker_news" /\ ran = 1 /\ Len(top_stories) > 0
    /\ exc \in {"ConnectionError", "KeyError", "APIError"}

\* C15 as stated: a failure on one story is skipped or degraded for that
\* story alone: the run does not end with status 500 and the stories that
\* passed the filter are published.
C15_StoryFailureNotFatal ==
    HN_StoryFailed =>
        /\ response.statusCode # 500
        /\ stories # <<>> => Len(bucket) = 1

\* the write of the run failed
WriteFailed == \E i \in 1..Len(bucket) : bucket[i].outcome # "stored"

\* C16 as stated: a failure of the write is caught in _store_summaries, is
\* not retried (put_object is attempted at most once) and is not escalated:
\* the job returns and the handler reports status 200.
C16_WriteFailureNotEscalated ==
    /\ Len(bucket) <= 1
    /\ WriteFailed =>
         /\ exc = "None"
         /\ pc \in {"finish", "returned"}
         /\ pc = "returned" => response.statusCode = 200

\* C16 amended: put_object is attempted at most once per run; a failure it
\* reports as ClientError is caught in _store_summaries and not escalated
\* (the job returns, the handler reports 200); a failure of another class
\* (a connection error) is not caught there and the handler reports 500.
C16_ClientErrorNotEscalated ==
    /\ Len(bucket) <= 1
    /\ \A i \in 1..Len(bucket) :
         /\ bucket[i].outcome = "ClientError" =>
              /\ exc = "None"
              /\ pc \in {"finish", "returned"}
              /\ pc = "returned" => response.statusCode = 200
         /\ bucket[i].outcome \notin {"stored", "ClientError"} =>
              /\ exc = bucket[i].outcome
              /\ pc = "returned" /\ response.statusCode = 500

C16_Witness ==
    /\ Len(bucket) = 1 /\ bucket[1].outcome = "ClientError"
    /\ pc = "returned" /\ response.statusCode = 200
    /\ job = "tech_feed" /\ Len(markdowns) = 1


\* ---------------------------------------------------------------------
\* C14: in the tech feed job _summarize_article never raises.  A rendered
\* article carries the fixed placeholder exactly when its text is empty or
\* whitespace-only, and the summarizer was called only for the other
\* articles; a failing summarizer call leaves an inline "Error summarizing
\* content" message in that one fragment, raises nothing, and every entry
\* processed so far has been rendered.
TF_Placeholders == { i \in 1..Len(markdowns) : markdowns[i].summary.kind = "placeholder" }

TF_ErrorFragments == { i \in 1..Len(markdowns) : markdowns[i].summary.kind = "error" }

C14_SummarizeNeverRaises ==
    (job = "tech_feed" /\ ran = 1) =>
        /\ \A i \in 1..Len(markdowns) :
              LET t == ArticleText(markdowns[i].url)
              IN  /\ (t.plain + t.markup = 0 \/ t.kind = "space")
                        <=> i \in TF_Placeholders
                  /\ i \in TF_Placeholders =>
                        markdowns[i].summary.of
                            = "Content could not be retrieved or was empty."
                  /\ i \notin TF_Placeholders =>
                        markdowns[i].summary.kind \in {"summary", "error"}
        /\ Len(summarized) = Len(markdowns) - Cardinality(TF_Placeholders)
        /\ Cardinality(TF_ErrorFragments) = summarizer_errors
        /\ exc # "APIError"
        /\ (exc = "None" /\ pc = "tf_entries") =>
              Len(markdowns) = Len(kept) - Len(entries) + entry_idx
        /\ (exc = "None" /\ pc \in {"tf_loop", "finish", "returned"}) =>
              Len(markdowns) = Len(kept)

C14_Witness ==
    /\ job = "tech_feed" /\ pc = "returned" /\ response.statusCode = 200
    /\ Len(bucket) = 1 /\ Len(markdowns) >= 2
    /\ markdowns[1].summary.kind = "error"
    /\ markdowns[2].summary.kind = "placeholder"
    /\ markdowns[2].url = "https://site/blank"
    /\ Len(summarized) = 1


\* ---------------------------------------------------------------------
\* C12: in the GitHub Trending job a language whose fetch or parse fails
\* is skipped and the loop continues.  The digest lists, in the order of
\* the languages, every repository of every language that was fetched and
\* parsed, nothing of a failing language, no exception escapes the loop,
\* and the digest is written once.
BlockFails(block) ==
    \/ "stars" \notin DOMAIN block
    \/ LET ds == SelectSeq(block.stars, LAMBDA c : c # ",")
       IN  ds = <<>> \/ \E i \in 1..Len(ds) : ds[i] \notin Digits

LanguageFails(p) ==
    ~p.fetched \/ \E i \in 1..Len(p.page) : BlockFails(p.page[i])

RECURSIVE GH_ExpectedNames(_)
GH_ExpectedNames(ps) ==
    IF ps = <<>> THEN <<>>
    ELSE LET p == Head(ps)
         IN  (IF LanguageFails(p) THEN <<>>
              ELSE [i \in 1..Len(p.page) |-> p.page[i].name])
             \o GH_ExpectedNames(Tail(ps))

C12_LanguageFailureSkipped ==
    (job = "github_trending" /\ ran = 1) =>
        /\ Len(pages) = lang_idx
        /\ [i \in 1..Len(markdowns) |-> markdowns[i].title] = GH_ExpectedNames(pages)
        /\ pc = "gh_loop" => (exc = "None" /\ bucket = <<>>)
        /\ pc \in {"finish", "returned"} =>
              /\ lang_idx = Len(Languages)
              /\ Len(bucket) = 1
              /\ bucket[1].Body = Join("\n---\n", markdowns)
              /\ exc \in {"None", "EndpointConnectionError"}

C12_Witness ==
    /\ job = "github_trending" /\ pc = "returned" /\ response.statusCode = 200
    /\ Len(pages) = 2
    /\ pages[1].fetched /\ Len(pages[1].page) = 2
    /\ ~BlockFails(pages[1].page[1]) /\ BlockFails(pages[1].page[2])
    /\ ~LanguageFails(pages[2]) /\ Len(pages[2].page) = 2
    /\ Len(markdowns) = 2
    /\ markdowns[1].title = <<"rust", 1>>
    /\ Len(bucket) = 1 /\ bucket[1].outcome = "stored"


\* ---------------------------------------------------------------------
\* C13: a run that reaches the publish step issues exactly one write.  Its
\* key is the job name, "/", the date of the day of the write and ".md";
\* its body is the rendered fragments in processing order joined by
\* "\n---\n".  A GitHub Trending or tech feed run whose loop ends publishes
\* also when it has no record at all.
ReachedPublish ==
    /\ ran = 1
    /\ \/ pc = "finish"
       \/ pc = "returned" /\ exc \in {"None", "EndpointConnectionError"}
    /\ job = "hacker_news" => stories # <<>>

C13_OneWritePerPublish ==
    /\ ReachedPublish <=> bucket # <<>>
    /\ bucket # <<>> =>
          /\ Len(bucket) = 1
          /\ \E d \in Dates : bucket[1].Key = <<job, "/", d, ".md">>
          /\ Len(bucket[1].Body) = IF markdowns = <<>> THEN 0
                                   ELSE 2 * Len(markdowns) - 1
          /\ \A k \in 1..Len(bucket[1].Body) :
                bucket[1].Body[k] = IF k % 2 = 1 THEN markdowns[(k + 1) \div 2]
                                    ELSE "\n---\n"

C13_Witness ==
    /\ job = "tech_feed" /\ pc = "returned" /\ response.statusCode = 200
    /\ feed_idx = Len(Feeds) /\ kept = <<>> /\ markdowns = <<>>
    /\ Len(bucket) = 1
    /\ bucket[1].Key = <<"tech_feed", "/", "2025-05-02", ".md">>
    /\ bucket[1].Body = <<>>
    /\ bucket[1].outcome = "stored"


----------------------------------------------------------------------------
\* Properties of several runs of one job.

\* the runs whose put_object was stored
Writers == { r \in Runs : run_put[r].outcome = "stored" }

\* body is the whole digest of run r: its fragments in order, separated
IsDigestOf(body, r) ==
    /\ Len(body) = IF run_markdowns[r] = <<>> THEN 0
                   ELSE 2 * Len(run_markdowns[r]) - 1
    /\ \A k \in 1..Len(body) :
          body[k] = IF k % 2 = 1 THEN run_markdowns[r][(k + 1) \div 2]
                    ELSE "\n---\n"

\* C17: however the runs of one job interleave, the runs that write on the
\* same date write to the same key, and the object stored under a key is
\* the whole digest of the run whose write to that key was stored last,
\* never a merge of several runs' digests.
C17_LastWriterWins ==
    /\ \A r1, r2 \in Runs :
          (run_put[r1].outcome # "None" /\ run_put[r2].outcome # "None"
             /\ run_put[r1].date = run_put[r2].date)
          => run_put[r1].Key = run_put[r2].Key
    /\ DOMAIN objects = { run_put[r].Key : r \in Writers }
    /\ DOMAIN last_writer = DOMAIN objects
    /\ \A key \in DOMAIN objects :
          /\ \E d \in Dates : key = <<job, "/", d, ".md">>
          /\ last_writer[key] \in Writers
          /\ run_put[last_writer[key]].Key = key
          /\ IsDigestOf(objects[key], last_writer[key])

C17_Witness ==
    /\ \A r \in Runs : run_pc[r] = "done"
    /\ Writers = Runs
    /\ \A r \in Runs : run_put[r].date = "2025-05-01"
    /\ Len(run_markdowns[1]) = 2 /\ Len(run_markdowns[2]) = 1
    /\ DOMAIN objects = { <<job, "/", "2025-05-01", ".md">> }
    /\ last_writer[<<job, "/", "2025-05-01", ".md">>] = 2
    /\ Len(objects[<<job, "/", "2025-05-01", ".md">>]) = 1

====
